---- MODULE Spec2Model ----
(***************************************************************************)
(* A model of the three one-shot APKMirror retrieval scripts               *)
(*   scripts/sync_music.py, scripts/sync_reddit.py, scripts/sync_youtube.py *)
(* Each script is a straight-line program: validate the version, scan the  *)
(* paginated uploads listing for the release, pick a variant row, follow   *)
(* two download pages and stream the binary to tmp/.                       *)
(*                                                                         *)
(* Text is modelled as TLA+ strings (sequences of characters), so that the *)
(* substring tests, str.replace, str.lower and urljoin are computed, not   *)
(* assumed.  An optional value (Python None or a value) is <<>> or <<v>>.  *)
(* The mirror is the environment: every fetch draws its response from a    *)
(* bounded pool of documents.                                              *)
(***************************************************************************)
EXTENDS Integers, Sequences, FiniteSets, TLC

VARIABLES
    tool,          \* which script runs: "music", "reddit" or "youtube"
    version,       \* os.environ.get("<APP>_VERSION"): None or a string
    stage,         \* position of the run in the script (section 4.4 names)
    page,          \* loop variable of the location loop
    version_slug,  \* None until computed
    release_url,   \* None or the located release page URL
    variant_url,   \* None or the selected variant page URL
    download_page, \* None or the confirmation page URL
    apk_url,       \* None or the final binary URL (apkm_url in sync_reddit)
    soup,          \* the page parsed last: soup = BeautifulSoup(r.text, ...)
    file,          \* the output file: opened or not, its path, the bytes written
    received,      \* chunks yielded so far by the binary response's iterator
    fetched,       \* history: one record per request issued, in order
    stdout,        \* the lines printed so far
    exit_code      \* None while running, else the process exit status

vars == <<tool, version, stage, page, version_slug, release_url, variant_url,
          download_page, apk_url, soup, file, received, fetched, stdout,
          exit_code>>

----------------------------------------------------------------------------
(* Bounds of the model                                                     *)

MaxRows   == 2   \* most div.table-row rows on a release page
MaxChunks == 2   \* most chunks a binary response yields
MaxVerLen == 3   \* longest version string given to the slug computation

----------------------------------------------------------------------------
(* Program constants                                                       *)

MAX_PAGES == 25

APKMIRROR_BASE == "https://www.apkmirror.com"

Tools == {"music", "reddit", "youtube"}

Category(t) ==
    CASE t = "music"   -> "youtube-music"
      [] t = "reddit"  -> "reddit"
      [] t = "youtube" -> "youtube"

UPLOADS_BASE(t) == APKMIRROR_BASE \o "/uploads/?appcategory=" \o Category(t)

----------------------------------------------------------------------------
(* Python values and string functions                                      *)

None == <<>>
Some(v) == <<v>>
Val(o) == o[1]

\* Mutant: "if <APP>_VERSION is None" in place of "if not <APP>_VERSION".
Truthy_noneonly(o) == o # None

\* Python truthiness of an optional string: None and "" are falsy.
Truthy(o) == o # None /\ Val(o) # ""

Char(s, i) == SubSeq(s, i, i)

\* The least number of a non-empty set of numbers.
Least(S) == CHOOSE x \in S : \A y \in S : x <= y

\* The element of a set of one element.
Only(S) == CHOOSE x \in S : TRUE

\* sub in s (t is s, computed once)
Contains(sub, s) ==
    \E t \in {s} :
        \E i \in 0..(Len(t) - Len(sub)) : SubSeq(t, i + 1, i + Len(sub)) = sub

StartsWith(s, p) == Len(s) >= Len(p) /\ SubSeq(s, 1, Len(p)) = p

\* Mutant: s.replace('.', '').
RECURSIVE ReplaceDots_removed(_)
ReplaceDots_removed(s) ==
    IF s = "" THEN ""
    ELSE (IF Char(s, 1) = "." THEN "" ELSE Char(s, 1))
         \o ReplaceDots_removed(SubSeq(s, 2, Len(s)))

\* s.replace('.', '-')
RECURSIVE ReplaceDots(_)
ReplaceDots(s) ==
    IF s = "" THEN ""
    ELSE (IF Char(s, 1) = "." THEN "-" ELSE Char(s, 1))
         \o ReplaceDots(SubSeq(s, 2, Len(s)))

LowerTable ==
    [A |-> "a", B |-> "b", C |-> "c", D |-> "d", E |-> "e", F |-> "f",
     G |-> "g", H |-> "h", I |-> "i", J |-> "j", K |-> "k", L |-> "l",
     M |-> "m", N |-> "n", O |-> "o", P |-> "p", Q |-> "q", R |-> "r",
     S |-> "s", T |-> "t", U |-> "u", V |-> "v", W |-> "w", X |-> "x",
     Y |-> "y", Z |-> "z"]

LowerChar(c) == IF c \in DOMAIN LowerTable THEN LowerTable[c] ELSE c

\* s.lower() (rest is the text after the first character, computed once)
RECURSIVE Lower(_)
Lower(s) ==
    IF s = "" THEN ""
    ELSE Only({LowerChar(Char(s, 1)) \o Lower(rest) :
                  rest \in {SubSeq(s, 2, Len(s))}})

\* s.strip(), for the blank the documents use
RECURSIVE Strip(_)
Strip(s) ==
    IF s = "" THEN ""
    ELSE IF Char(s, 1) = " " THEN Strip(SubSeq(s, 2, Len(s)))
    ELSE IF Char(s, Len(s)) = " " THEN Strip(SubSeq(s, 1, Len(s) - 1))
    ELSE s

\* str(n) for n >= 0
Digits == "0123456789"
RECURSIVE Str(_)
Str(n) ==
    IF n < 10 THEN Char(Digits, n + 1)
    ELSE Str(n \div 10) \o Char(Digits, (n % 10) + 1)

\* The position of the first character of s, at or after position from, that
\* is in the set C; 0 when there is none (str.find, counted from 1).
FirstOf(s, C, from) ==
    Only({IF P = {} THEN 0 ELSE Least(P) :
             P \in {Only({{i \in from..Len(t) : Char(t, i) \in C} :
                             t \in {s}})}})

\* s.find(c) + 1
Find(s, c) == FirstOf(s, {c}, 1)

\* s.rfind(c) + 1
RFind(s, c) ==
    Only({IF P = {} THEN 0 ELSE CHOOSE x \in P : \A y \in P : y <= x :
             P \in {Only({{i \in 1..Len(t) : Char(t, i) = c} : t \in {s}})}})

\* The set of the characters of s.
CharsOf(s) == {Char(s, i) : i \in 1..Len(s)}

\* s.split(c): the pieces of s between the occurrences of the character c
RECURSIVE Split(_, _)
Split(s, c) ==
    Only({Only({IF i = 0 THEN <<t>>
                ELSE <<SubSeq(t, 1, i - 1)>> \o Split(SubSeq(t, i + 1, Len(t)), c) :
                   i \in {Find(t, c)}}) :
             t \in {s}})

\* c.join(parts)
RECURSIVE Join(_, _)
Join(parts, c) ==
    Only({IF Len(p) = 0 THEN ""
          ELSE IF Len(p) = 1 THEN p[1]
          ELSE p[1] \o c \o Join(Tail(p), c) :
             p \in {parts}})

\* urllib.parse: the schemes that allow a relative reference, a network
\* location, parameters
uses_relative ==
    {"", "ftp", "http", "gopher", "nntp", "imap", "wais", "file", "https",
     "shttp", "mms", "prospero", "rtsp", "rtsps", "rtspu", "sftp", "svn",
     "svn+ssh", "ws", "wss"}

uses_netloc ==
    {"", "ftp", "http", "gopher", "nntp", "telnet", "imap", "wais", "file",
     "mms", "https", "shttp", "snews", "prospero", "rtsp", "rtsps", "rtspu",
     "rsync", "svn", "svn+ssh", "sftp", "nfs", "git", "git+ssh", "ws", "wss"}

uses_params ==
    {"", "ftp", "hdl", "prospero", "http", "imap", "https", "shttp", "rtsp",
     "rtsps", "rtspu", "sip", "sips", "mms", "sftp", "tel"}

\* str.isascii and str.isalpha hold of these characters
Letters == CharsOf("abcdefghijklmnopqrstuvwxyzABCDEFGHIJKLMNOPQRSTUVWXYZ")

scheme_chars == Letters \cup CharsOf("0123456789+-.")

\* url.lstrip(_WHATWG_C0_CONTROL_OR_SPACE), for the blanks a string here holds
Blanks == {" ", "\t", "\n", "\r", "\f"}

LStrip(s) ==
    Only({IF t = "" \/ Char(t, 1) \notin Blanks THEN t
          ELSE Only({IF K = {} THEN "" ELSE SubSeq(t, Least(K), Len(t)) :
                        K \in {{i \in 1..Len(t) : Char(t, i) \notin Blanks}}}) :
             t \in {s}})

\* scheme.strip(_WHATWG_C0_CONTROL_OR_SPACE): the blanks of both ends removed
StripBlanks(s) ==
    Only({IF t = "" \/ Char(t, Len(t)) \notin Blanks THEN t
          ELSE Only({IF K = {} THEN ""
                     ELSE SubSeq(t, 1, CHOOSE x \in K : \A y \in K : y <= x) :
                        K \in {{i \in 1..Len(t) : Char(t, i) \notin Blanks}}}) :
             t \in {LStrip(s)}})

\* for b in _UNSAFE_URL_BYTES_TO_REMOVE: url = url.replace(b, "")
Unsafe == {"\t", "\r", "\n"}

RECURSIVE RemoveUnsafe(_)
RemoveUnsafe(s) ==
    Only({IF \A i \in 1..Len(t) : Char(t, i) \notin Unsafe THEN t
          ELSE Only({(IF Char(t, 1) \in Unsafe THEN "" ELSE Char(t, 1))
                     \o RemoveUnsafe(rest) : rest \in {SubSeq(t, 2, Len(t))}}) :
             t \in {s}})

\* The position of the ':' that ends a scheme at the start of url, 0 when url
\* starts with no scheme: a letter, then scheme characters up to the ':'.
SchemeEnd(url) ==
    Only({IF /\ i > 1
             /\ Char(url, 1) \in Letters
             /\ \A k \in 1..(i - 1) : Char(url, k) \in scheme_chars
          THEN i ELSE 0 :
             i \in {Find(url, ":")}})

\* if '?' in url: url, query = url.split('?', 1)
SplitQuery(scheme, netloc, url, fragment) ==
    Only({[scheme   |-> scheme,
           netloc   |-> netloc,
           path     |-> IF q = 0 THEN url ELSE SubSeq(url, 1, q - 1),
           query    |-> IF q = 0 THEN "" ELSE SubSeq(url, q + 1, Len(url)),
           fragment |-> fragment] :
             q \in {Find(url, "?")}})

\* if '#' in url: url, fragment = url.split('#', 1)
SplitFragment(scheme, netloc, url) ==
    Only({SplitQuery(scheme, netloc,
                     IF h = 0 THEN url ELSE SubSeq(url, 1, h - 1),
                     IF h = 0 THEN "" ELSE SubSeq(url, h + 1, Len(url))) :
             h \in {Find(url, "#")}})

\* if url[:2] == '//': netloc, url = _splitnetloc(url, 2); the network
\* location ends before the first of "/?#", or at the end of url
SplitNetloc(scheme, url) ==
    IF StartsWith(url, "//")
    THEN Only({SplitFragment(scheme,
                             SubSeq(url, 3, (IF d = 0 THEN Len(url) + 1 ELSE d) - 1),
                             SubSeq(url, IF d = 0 THEN Len(url) + 1 ELSE d, Len(url))) :
                  d \in {FirstOf(url, {"/", "?", "#"}, 3)}})
    ELSE SplitFragment(scheme, "", url)

\* urlsplit(url, scheme), for a network location without brackets: url is
\* stripped on the left, the default scheme on both ends, and the unsafe
\* characters are removed from both before the scheme of url is looked for.
Urlsplit(url, scheme) ==
    Only({Only({SplitNetloc(IF i = 0 THEN RemoveUnsafe(StripBlanks(scheme))
                            ELSE Lower(SubSeq(u, 1, i - 1)),
                            SubSeq(u, i + 1, Len(u))) :
                   i \in {SchemeEnd(u)}}) :
             u \in {RemoveUnsafe(LStrip(url))}})

\* _splitparams(url): the position of the ';' that starts the parameters of
\* the last path segment, 0 when it has none
ParamsStart(path) ==
    Only({FirstOf(path, {";"}, IF s = 0 THEN 1 ELSE s) : s \in {RFind(path, "/")}})

\* urlparse(url, scheme)
Urlparse(url, scheme) ==
    Only({Only({[scheme   |-> r.scheme,
                 netloc   |-> r.netloc,
                 path     |-> IF i = 0 THEN r.path ELSE SubSeq(r.path, 1, i - 1),
                 params   |-> IF i = 0 THEN ""
                              ELSE SubSeq(r.path, i + 1, Len(r.path)),
                 query    |-> r.query,
                 fragment |-> r.fragment] :
                   i \in {IF r.scheme \in uses_params
                          THEN ParamsStart(r.path) ELSE 0}}) :
             r \in {Urlsplit(url, scheme)}})

\* urlunsplit((scheme, netloc, url, query, fragment))
Urlunsplit(scheme, netloc, url, query, fragment) ==
    Only({(IF scheme # "" THEN scheme \o ":" ELSE "")
          \o u
          \o (IF query # "" THEN "?" \o query ELSE "")
          \o (IF fragment # "" THEN "#" \o fragment ELSE "") :
             u \in {IF \/ netloc # ""
                       \/ (scheme # "" /\ scheme \in uses_netloc
                           /\ ~StartsWith(url, "//"))
                    THEN "//" \o netloc
                         \o (IF url # "" /\ ~StartsWith(url, "/")
                             THEN "/" \o url ELSE url)
                    ELSE url}})

\* urlunparse((scheme, netloc, url, params, query, fragment))
Urlunparse(scheme, netloc, url, params, query, fragment) ==
    Urlunsplit(scheme, netloc,
               IF params # "" THEN url \o ";" \o params ELSE url,
               query, fragment)

\* segments[1:-1] = filter(None, segments[1:-1])
FilterMiddle(segments) ==
    Only({IF Len(s) < 3 THEN s
          ELSE <<s[1]>>
               \o SelectSeq(SubSeq(s, 2, Len(s) - 1), LAMBDA x : x # "")
               \o <<s[Len(s)]>> :
             s \in {segments}})

\* for seg in segments: ".." pops the resolved path, "." is skipped
RECURSIVE RemoveDots(_, _)
RemoveDots(segments, n) ==
    IF n = 0 THEN <<>>
    ELSE Only({IF segments[n] = ".."
               THEN SubSeq(resolved, 1, Len(resolved) - 1)
               ELSE IF segments[n] = "." THEN resolved
               ELSE Append(resolved, segments[n]) :
                  resolved \in {RemoveDots(segments, n - 1)}})

\* The path of urljoin's result: the segments of the base path without its
\* last one, then those of path, resolved and joined.
ResolvedPath(bpath, path) ==
    Only({Only({Only({IF joined = "" THEN "/" ELSE joined :
                         joined \in {Join(RemoveDots(segments, Len(segments))
                                          \o (IF segments[Len(segments)] \in {".", ".."}
                                              THEN <<"">> ELSE <<>>), "/")}}) :
                   segments \in {IF StartsWith(path, "/") THEN Split(path, "/")
                                 ELSE FilterMiddle(base_parts \o Split(path, "/"))}}) :
             base_parts \in {Only({IF parts[Len(parts)] # ""
                                   THEN SubSeq(parts, 1, Len(parts) - 1)
                                   ELSE parts :
                                      parts \in {Split(bpath, "/")}})}})

\* urljoin, after both URLs are parsed (b the base, u the URL); url is the
\* URL as given.
JoinParsed(b, u, url) ==
    IF u.scheme # b.scheme \/ u.scheme \notin uses_relative THEN url
    ELSE IF u.scheme \in uses_netloc /\ u.netloc # ""
    THEN Urlunparse(u.scheme, u.netloc, u.path, u.params, u.query, u.fragment)
    ELSE Only({IF u.path = "" /\ u.params = ""
               THEN Urlunparse(u.scheme, netloc, b.path, b.params,
                               IF u.query = "" THEN b.query ELSE u.query,
                               u.fragment)
               ELSE Urlunparse(u.scheme, netloc, ResolvedPath(b.path, u.path),
                               u.params, u.query, u.fragment) :
                  netloc \in {IF u.scheme \in uses_netloc
                              THEN b.netloc ELSE u.netloc}})

\* urljoin(base, url), for URLs whose network location has no brackets
Urljoin(base, url) ==
    IF base = "" THEN url
    ELSE IF url = "" THEN base
    ELSE Only({Only({JoinParsed(b, u, url) :
                        u \in {Urlparse(url, b.scheme)}}) :
                  b \in {Urlparse(base, "")}})

----------------------------------------------------------------------------
(* Version, slug, URLs and file name                                       *)

SlugPrefix(t) ==
    CASE t = "music"   -> "youtube-music-"
      [] t = "reddit"  -> "reddit-"
      [] t = "youtube" -> "youtube-"

\* version_slug = f"<app>-{VERSION.replace('.', '-')}-release"
Slug(t, v) == SlugPrefix(t) \o ReplaceDots(v) \o "-release"

\* page_url of the location loop
PageUrl(t, n) ==
    IF n = 1 THEN UPLOADS_BASE(t)
    ELSE APKMIRROR_BASE \o "/uploads/page/" \o Str(n)
         \o "/?appcategory=" \o Category(t)

\* apk_path = TMP_DIR / f"<App>-{VERSION}.<ext>"
OutputPath(t, v) ==
    CASE t = "music"   -> "tmp/Music-" \o v \o ".apk"
      [] t = "reddit"  -> "tmp/Reddit-" \o v \o ".apkm"
      [] t = "youtube" -> "tmp/YouTube-" \o v \o ".apk"

----------------------------------------------------------------------------
(* Documents: what BeautifulSoup gives the scripts                         *)

\* An <a> element: its href and rel attributes (None when absent), its classes.
Anchor(href, class, rel) == [href |-> href, class |-> class, rel |-> rel]

Link(href) == Anchor(Some(href), <<>>, None)

\* A div.table-row element: its text nodes in order, and its <a> elements.
Row(cells, anchors) == [cells |-> cells, anchors |-> anchors]

\* A parsed page: its <a> elements and its div.table-row elements, in order.
Doc(anchors, rows) == [anchors |-> anchors, rows |-> rows]

NoDoc == Doc(<<>>, <<>>)

SeqsUpTo(S, n) == UNION {[1..k -> S] : k \in 0..n}

\* select("a[href]"): the anchors that have an href attribute, in order
RECURSIVE SelectWithHref(_)
SelectWithHref(anchors) ==
    IF anchors = <<>> THEN <<>>
    ELSE (IF Head(anchors).href # None THEN <<Head(anchors)>> ELSE <<>>)
         \o SelectWithHref(Tail(anchors))

\* row.get_text(" ", strip=True): the stripped, non-empty text nodes joined by " "
JoinText(h, t) ==
    IF h = "" THEN t
    ELSE IF t = "" THEN h
    ELSE h \o " " \o t

RECURSIVE GetText(_)
GetText(cells) ==
    IF cells = <<>> THEN ""
    ELSE Only({JoinText(h, t) : h \in {Strip(Head(cells))},
                                t \in {GetText(Tail(cells))}})

\* row.find("a", href=True): the first anchor of the row with an href, or None
RowFindLink(row) ==
    LET as == SelectWithHref(row.anchors)
    IN  IF as = <<>> THEN None ELSE Some(Head(as))

\* select_one("a.downloadButton"): the first anchor with that class, or None
RECURSIVE SelectDownloadButton(_)
SelectDownloadButton(anchors) ==
    IF anchors = <<>> THEN None
    ELSE IF \E i \in DOMAIN Head(anchors).class :
                Head(anchors).class[i] = "downloadButton"
         THEN Some(Head(anchors))
    ELSE SelectDownloadButton(Tail(anchors))

\* Mutant: without a rel="nofollow" anchor, the first link of the page is taken.
RECURSIVE SelectNofollow_fallback(_)
SelectNofollow_fallback(anchors) ==
    IF \E i \in DOMAIN anchors : anchors[i].rel = Some("nofollow")
    THEN (IF Head(anchors).rel = Some("nofollow") THEN Some(Head(anchors))
          ELSE SelectNofollow_fallback(Tail(anchors)))
    ELSE (IF SelectWithHref(anchors) = <<>> THEN None
          ELSE Some(Head(SelectWithHref(anchors))))

\* select_one("a[rel='nofollow']"): the first anchor whose rel is nofollow, or None
RECURSIVE SelectNofollow(_)
SelectNofollow(anchors) ==
    IF anchors = <<>> THEN None
    ELSE IF Head(anchors).rel = Some("nofollow") THEN Some(Head(anchors))
    ELSE SelectNofollow(Tail(anchors))

----------------------------------------------------------------------------
(* The environment: the inputs and the mirror's responses                  *)

\* The environment variable: unset, empty, or a version string.
Versions == {None, Some(""), Some("1.2")}

\* Response statuses drawn; 0 stands for a request that raised (timeout,
\* connection error) instead of returning a response.
TimedOut == 0
Statuses == {200, 404, TimedOut}

\* Anchors of the listing pages: two different links to the wanted release
\* (a path, a URL with a fragment), a link to the release of another version,
\* and an anchor without href.
ReleaseLink(t, v)  == Link("/apk/" \o Slug(t, v) \o "/")
ReleaseLinkAbs(t, v) ==
    Link(APKMIRROR_BASE \o "/apk/" \o Slug(t, v) \o "/#downloads")
OtherRelease(t, v) == Link("/apk/" \o Slug(t, "9." \o v) \o "/")
NoHref             == Anchor(None, <<>>, None)

\* Listing pages: without anchors, with anchors but no link to the release,
\* with the release link after an anchor without href, with two different
\* release links in either order.
ListingDocs(t, v) ==
    { Doc(<<>>, <<>>),
      Doc(<<OtherRelease(t, v), NoHref>>, <<>>),
      Doc(<<NoHref, ReleaseLink(t, v)>>, <<>>),
      Doc(<<ReleaseLinkAbs(t, v), ReleaseLink(t, v)>>, <<>>),
      Doc(<<ReleaseLink(t, v), ReleaseLinkAbs(t, v)>>, <<>>) }

\* Rows a release page may carry, per application.
ReleaseRows(t) ==
    CASE t = "music" ->
           { Row(<<"APK", " arm64-v8a ", "nodpi">>, <<Link("/m/arm64-download/")>>),
             Row(<<"APK", "armeabi-v7a", "nodpi">>, <<>>),
             Row(<<"APK", "armeabi-v7a", "nodpi">>, <<Link("/m/armv7-download/")>>),
             Row(<<"BUNDLE", "2 APKs", "arm64-v8a", "nodpi">>, <<Link("/m/bundle-download/")>>),
             Row(<<"APK", "x86_64", "nodpi">>, <<Link("/m/x86-download/")>>) }
      [] t = "reddit" ->
           { Row(<<"BUNDLE", "universal", "120-640dpi">>, <<Link("/r/uni-download/")>>),
             Row(<<"BUNDLE", "universal", "120-640dpi">>, <<>>),
             Row(<<"BUNDLE", " arm64-v8a", "120-640dpi">>, <<Link("/r/arm64-download/")>>),
             Row(<<"BUNDLE", "universal", "480dpi">>, <<Link("/r/uni480-download/")>>),
             Row(<<"BUNDLE", "arm64-v8a", "480dpi">>, <<Link("/r/arm480-download/")>>),
             Row(<<"APK", "universal", "120-640dpi">>, <<Link("/r/apk-download/")>>) }
      [] t = "youtube" ->
           { Row(<<"APK", "universal ", "nodpi">>, <<Link("/y/uni-download/")>>),
             Row(<<"APK", "universal", "nodpi">>, <<Anchor(None, <<>>, None)>>),
             Row(<<"BUNDLE", "2 APKs", "universal", "nodpi">>, <<Link("/y/bundle-download/")>>),
             Row(<<"APK", "arm64-v8a", "nodpi">>, <<Link("/y/arm64-download/")>>),
             Row(<<"Variant", "Architecture", "Screen DPI">>, <<>>) }

ReleaseDocs(t) == [anchors : {<<>>}, rows : SeqsUpTo(ReleaseRows(t), MaxRows)]

\* Elements of the two download pages.
DownloadButton == Anchor(Some("/download/?key=1"), <<"btn", "downloadButton">>, None)
ButtonNoHref   == Anchor(None, <<"downloadButton">>, None)
FinalLink      == Anchor(Some("/wp-content/download.php?id=1"), <<>>, Some("nofollow"))
FinalLinkDots  == Anchor(Some("../wp-content/./download.php?id=1"), <<>>,
                         Some("nofollow"))
FinalNoHref    == Anchor(None, <<>>, Some("nofollow"))
OtherLink      == Anchor(Some("/advert/"), <<"btn">>, Some("noopener"))

\* Variant pages: with the download button (alone, or after another link),
\* without it (another link is there), or with a button that has no href.
VariantDocs ==
    { Doc(<<DownloadButton>>, <<>>),
      Doc(<<OtherLink, FinalLink, DownloadButton>>, <<>>),
      Doc(<<OtherLink, FinalLink>>, <<>>),
      Doc(<<ButtonNoHref, DownloadButton>>, <<>>) }

\* Confirmation pages: with the rel="nofollow" link (alone, or after other
\* links and its href written with dot segments), without it (other links
\* are there), or with one that has no href.
ConfirmDocs ==
    { Doc(<<FinalLink>>, <<>>),
      Doc(<<OtherLink, DownloadButton, FinalLinkDots>>, <<>>),
      Doc(<<OtherLink, DownloadButton>>, <<>>),
      Doc(<<FinalNoHref, FinalLink>>, <<>>) }

\* Chunks r.iter_content(8192) may yield; "" is an empty chunk.
Chunks == {"", "PK"}

\* The anchors the pools above put on a page.
PoolAnchors ==
    UNION {{d.anchors[i] : i \in DOMAIN d.anchors} :
              d \in VariantDocs \cup ConfirmDocs
                    \cup UNION {ListingDocs(t, Val(v)) :
                                   t \in Tools, v \in {w \in Versions : Truthy(w)}}}
    \cup UNION {{r.anchors[i] : i \in DOMAIN r.anchors} :
                    r \in UNION {ReleaseRows(t) : t \in Tools}}

\* urljoin(APKMIRROR_BASE, href) for the hrefs of these anchors: urljoin is
\* a function of its arguments, so each of them is joined once.
Joined ==
    [href \in {Val(a.href) : a \in {b \in PoolAnchors : b.href # None}} |->
        Urljoin(APKMIRROR_BASE, href)]

\* urljoin(APKMIRROR_BASE, href), as the scripts call it
Absolute(href) ==
    IF href \in DOMAIN Joined THEN Joined[href]
    ELSE Urljoin(APKMIRROR_BASE, href)

----------------------------------------------------------------------------
(* The run                                                                 *)

Stages == <<"START", "LOCATING", "LOCATED", "SELECTING", "SELECTED",
            "RESOLVING_HOP1", "RESOLVING_HOP2", "DOWNLOADING", "DONE">>

\* One request issued: what it was for, its URL, the status that came back
\* (TimedOut if none did) and, for a listing page, its number, whether the
\* page held a link whose href contains the slug, and the href of the first
\* such link in document order (None if there is none).
Fetch(kind, url, status, n, hasSlug, first) ==
    [kind |-> kind, url |-> url, status |-> status, page |-> n,
     hasSlug |-> hasSlug, first |-> first]

\* Mutant: the call of r.raise_for_status() left out.
RaisesForStatus_timeoutonly(status) == status = TimedOut

\* requests.get raised, or r.raise_for_status() raises (4xx and 5xx)
RaisesForStatus(status) == status = TimedOut \/ (400 <= status /\ status < 600)

\* The state a script starts in, the version drawn from a set of inputs.
Start(versions) ==
    /\ tool \in Tools
    /\ version \in versions
    /\ stage = "START"
    /\ page = 0
    /\ version_slug = None
    /\ release_url = None
    /\ variant_url = None
    /\ download_page = None
    /\ apk_url = None
    /\ soup = NoDoc
    /\ file = [opened |-> FALSE, path |-> "", data |-> ""]
    /\ received = <<>>
    /\ fetched = <<>>
    /\ stdout = <<>>
    /\ exit_code = None

Init == Start(Versions)

\* print(...): the lines are appended to standard output
Say(lines) == stdout' = stdout \o lines

\* print("ERROR: <APP>_VERSION missing")
MissingVersionLine(t) ==
    CASE t = "music"   -> "ERROR: MUSIC_VERSION missing"
      [] t = "reddit"  -> "ERROR: REDDIT_VERSION missing"
      [] t = "youtube" -> "ERROR: YOUTUBE_VERSION missing"

\* The app's name as the scripts write it in messages and file names.
AppName(t) ==
    CASE t = "music"   -> "Music"
      [] t = "reddit"  -> "Reddit"
      [] t = "youtube" -> "YouTube"

\* The two lines printed once the slug is computed.
TargetLines(t, v, slug) ==
    << "[+] Target " \o AppName(t) \o " version: " \o v,
       "[+] Looking for slug: " \o slug >>

\* First statement of the location loop's body; sync_reddit prints nothing.
ScanLines(t, n) ==
    IF t = "reddit" THEN <<>>
    ELSE << "[+] Scanning uploads page " \o Str(n) >>

NotFoundLine(t, v) ==
    IF t = "reddit" THEN "ERROR: Version " \o v \o " not found"
    ELSE "[!] Version " \o v \o " not found"

FoundLine(url) == "[+] Found release page: " \o url

NoVariantLine(t) ==
    CASE t = "music"   -> "[!] No suitable APK variant found"
      [] t = "reddit"  -> "ERROR: No suitable Reddit APKM variant found"
      [] t = "youtube" -> "[!] Universal nodpi APK not found"

SelectedLine(t, url) ==
    IF t = "music" THEN "[+] Selected APK variant: " \o url
    ELSE "[+] Selected variant: " \o url

NoButtonLine(t) ==
    IF t = "reddit" THEN "ERROR: Download button missing"
    ELSE "[!] Download button missing"

NoFinalLine(t) ==
    CASE t = "music"   -> "[!] Final download link missing"
      [] t = "reddit"  -> "ERROR: Final redirect missing"
      [] t = "youtube" -> "[!] Final redirect link not found"

\* Only sync_music prints after the final link is resolved.
ResolvedLines(t) ==
    IF t = "music" THEN << "[+] Final APK URL resolved" >> ELSE <<>>

\* apk_name = f"<App>-{VERSION}.<ext>"
ApkName(t, v) ==
    AppName(t) \o "-" \o v \o (IF t = "reddit" THEN ".apkm" ELSE ".apk")

\* Mutant: the APK_PATH line printed before the download instead of after.
DownloadingLines_withpath(t, v) ==
    << "[+] Downloading " \o ApkName(t, v) >>
    \o (IF t = "youtube" THEN << "APK_PATH=tmp/" \o ApkName(t, v) >> ELSE <<>>)

\* print(f"[+] Downloading {apk_name}"), before the request is issued
DownloadingLines(t, v) == << "[+] Downloading " \o ApkName(t, v) >>

\* The characters outside ASCII of the success lines, written as Python
\* escapes them (str.encode("unicode_escape")), a string here being ASCII:
\* sync_reddit and sync_youtube print the check mark U+2713; the literal of
\* sync_music holds the three characters U+00E2 U+0153 U+201C instead.
CheckMark == "\\u2713"
MusicMark == "\\xe2\\u0153\\u201c"

\* The lines printed after the download block.  sync_youtube prints the
\* path twice, the second time as APK_PATH=<path>.
DoneLines(t, path) ==
    CASE t = "music"   -> << "[" \o MusicMark \o "] APK downloaded successfully" >>
      [] t = "reddit"  -> << "[" \o CheckMark \o "] APKM downloaded successfully" >>
      [] t = "youtube" -> << "[" \o CheckMark \o "] APK downloaded: " \o path,
                             "APK_PATH=" \o path >>

\* sys.exit(1), or an uncaught exception
Fail ==
    /\ stage' = "FAILED"
    /\ exit_code' = Some(1)

\* "if not <APP>_VERSION: print(...); sys.exit(1)", then the slug and the
\* two lines that announce it
Validate ==
    /\ stage = "START"
    /\ IF ~Truthy(version)
       THEN /\ Say(<< MissingVersionLine(tool) >>)
            /\ Fail
            /\ UNCHANGED <<page, version_slug>>
       ELSE /\ version_slug' = Some(Slug(tool, Val(version)))
            /\ Say(TargetLines(tool, Val(version), Slug(tool, Val(version))))
            /\ page' = 1
            /\ stage' = "LOCATING"
            /\ UNCHANGED exit_code
    /\ UNCHANGED <<tool, version, release_url, variant_url, download_page,
                   apk_url, soup, file, received, fetched>>

\* Mutant: the link loop without its break, the last matching link wins.
RECURSIVE ScanLinks_last(_, _, _)
ScanLinks_last(anchors, slug, current) ==
    IF anchors = <<>> THEN current
    ELSE ScanLinks_last(Tail(anchors), slug,
            IF Contains(slug, Val(Head(anchors).href))
            THEN Some(Absolute(Val(Head(anchors).href)))
            ELSE current)

\* for a in soup.select("a[href]"): if version_slug in a["href"]: ...; break
RECURSIVE ScanLinks(_, _, _)
ScanLinks(anchors, slug, current) ==
    IF anchors = <<>> THEN current
    ELSE IF Contains(slug, Val(Head(anchors).href))
         THEN Some(Absolute(Val(Head(anchors).href)))
    ELSE ScanLinks(Tail(anchors), slug, current)

\* Mutant: the page loop without its break.
LoopBreaks_never(url) == FALSE

\* "if release_url: break" of the page loop
LoopBreaks(url) == Truthy(url)

\* Mutant: the loop written range(1, MAX_PAGES + 2).
MorePages_onemore(n) == n < MAX_PAGES + 1

\* Mutant: the loop written range(1, MAX_PAGES).
MorePages_offbyone(n) == n < MAX_PAGES - 1

\* "for page in range(1, MAX_PAGES + 1)": whether a page follows page n
MorePages(n) == n < MAX_PAGES

\* whether a page holds a link whose href contains the slug
HasSlug(doc, slug) ==
    \E i \in DOMAIN doc.anchors :
        /\ doc.anchors[i].href # None
        /\ Contains(slug, Val(doc.anchors[i].href))

\* the href of the first link of a page, in document order, that contains
\* the slug; None if the page has no such link
FirstSlugHref(doc, slug) ==
    LET hits == {i \in DOMAIN doc.anchors :
                    /\ doc.anchors[i].href # None
                    /\ Contains(slug, Val(doc.anchors[i].href))}
    IN  IF hits = {} THEN None ELSE doc.anchors[Least(hits)].href

\* One iteration of the location loop: fetch uploads page `page`, parse it
\* into soup (found is what the link scan leaves in release_url), scan its
\* links; after the last page, "if not release_url: sys.exit(1)".
ScanPage ==
    /\ stage = "LOCATING"
    /\ \E status \in Statuses :
          LET slug == Val(version_slug)
              scan == ScanLines(tool, page)
          IN  IF RaisesForStatus(status)
              THEN /\ fetched' = Append(fetched,
                         Fetch("listing", PageUrl(tool, page), status, page,
                               FALSE, None))
                   /\ Say(scan)
                   /\ Fail
                   /\ UNCHANGED <<page, release_url, soup>>
              ELSE /\ soup' \in ListingDocs(tool, Val(version))
                   /\ fetched' = Append(fetched,
                         Fetch("listing", PageUrl(tool, page), status, page,
                               HasSlug(soup', slug), FirstSlugHref(soup', slug)))
                   /\ \E found \in {ScanLinks(SelectWithHref(soup'.anchors),
                                             slug, release_url)} :
                      /\ release_url' = found
                      /\ IF LoopBreaks(found)
                         THEN /\ Say(scan \o << FoundLine(Val(found)) >>)
                              /\ stage' = "LOCATED"
                              /\ UNCHANGED <<page, exit_code>>
                         ELSE IF MorePages(page)
                         THEN /\ Say(scan)
                              /\ page' = page + 1
                              /\ UNCHANGED <<stage, exit_code>>
                         ELSE IF ~Truthy(found)
                         THEN /\ Say(scan \o << NotFoundLine(tool, Val(version)) >>)
                              /\ Fail
                              /\ UNCHANGED page
                         ELSE /\ Say(scan \o << FoundLine(Val(found)) >>)
                              /\ stage' = "LOCATED"
                              /\ UNCHANGED <<page, exit_code>>
    /\ UNCHANGED <<tool, version, version_slug, variant_url, download_page,
                   apk_url, file, received>>

\* One request for a page: the history record, and whether it failed.
Request(kind, url, status) ==
    fetched' = Append(fetched, Fetch(kind, url, status, 0, FALSE, None))

\* "Select ... variant": r = get(release_url); r.raise_for_status(); soup = ...
FetchRelease ==
    /\ stage = "LOCATED"
    /\ \E status \in Statuses :
          IF RaisesForStatus(status)
          THEN /\ Request("release", Val(release_url), status)
               /\ Fail
               /\ UNCHANGED soup
          ELSE /\ soup' \in ReleaseDocs(tool)
               /\ Request("release", Val(release_url), status)
               /\ stage' = "SELECTING"
               /\ UNCHANGED exit_code
    /\ UNCHANGED <<tool, version, page, version_slug, release_url, variant_url,
                   download_page, apk_url, file, received, stdout>>

\* all(k in text for k in keywords)
AllIn(keywords, text) ==
    \E t \in {text} : \A i \in DOMAIN keywords : Contains(keywords[i], t)

\* text = row.get_text(" ", strip=True).lower()
RowText(row) == Only({Lower(t) : t \in {GetText(row.cells)}})

\* a = row.find("a", href=True); urljoin(APKMIRROR_BASE, a["href"])
RowUrl(row) == Some(Absolute(Val(Val(RowFindLink(row)).href)))

\* Mutant: the first row with a link, whatever its text.
RECURSIVE FindVariant_anyrow(_, _)
FindVariant_anyrow(rows, keywords) ==
    IF rows = <<>> THEN None
    ELSE IF RowFindLink(Head(rows)) # None
         THEN RowUrl(Head(rows))
    ELSE FindVariant_anyrow(Tail(rows), keywords)

\* Mutant: the loop without its return, the last matching row wins.
RECURSIVE FindVariant_last(_, _)
FindVariant_last(rows, keywords) ==
    IF rows = <<>> THEN None
    ELSE Only({IF Truthy(later) THEN later
               ELSE IF /\ AllIn(keywords, RowText(Head(rows)))
                       /\ RowFindLink(Head(rows)) # None
                    THEN RowUrl(Head(rows))
               ELSE None :
                  later \in {FindVariant_last(Tail(rows), keywords)}})

\* find_variant(keywords) of sync_music and sync_reddit
RECURSIVE FindVariant(_, _)
FindVariant(rows, keywords) ==
    IF rows = <<>> THEN None
    ELSE IF /\ AllIn(keywords, RowText(Head(rows)))
            /\ RowFindLink(Head(rows)) # None
         THEN RowUrl(Head(rows))
    ELSE FindVariant(Tail(rows), keywords)

\* The priority lists of sync_music and sync_reddit, most preferred first.
Priority(t) ==
    CASE t = "music" ->
           << <<"apk", "nodpi", "arm64-v8a">>,
              <<"apk", "nodpi", "armeabi-v7a">> >>
      [] t = "reddit" ->
           << <<"bundle", "universal", "120-640dpi">>,
              <<"bundle", "arm64-v8a", "120-640dpi">>,
              <<"bundle", "universal", "480dpi">>,
              <<"bundle", "arm64-v8a", "480dpi">> >>

\* Mutant: the entries tried from the least preferred up.
RECURSIVE FirstByPriority_reversed(_, _)
FirstByPriority_reversed(rows, entries) ==
    IF Len(entries) = 1 THEN FindVariant(rows, Head(entries))
    ELSE Only({IF Truthy(v) THEN v ELSE FindVariant(rows, Head(entries)) :
                  v \in {FirstByPriority_reversed(rows, Tail(entries))}})

\* Mutant: only the first entry tried, no fallback.
FirstByPriority_nofallback(rows, entries) == FindVariant(rows, Head(entries))

\* find_variant(e1) or find_variant(e2) or ...
RECURSIVE FirstByPriority(_, _)
FirstByPriority(rows, entries) ==
    IF Len(entries) = 1 THEN FindVariant(rows, Head(entries))
    ELSE Only({IF Truthy(v) THEN v ELSE FirstByPriority(rows, Tail(entries)) :
                  v \in {FindVariant(rows, Head(entries))}})

\* Mutant: the row test without the bundle exclusion.
YouTubeRowMatches_noexclusion(text) ==
    /\ Contains("apk", text)
    /\ Contains("nodpi", text)
    /\ Contains("universal", text)

\* The row test of sync_youtube's selection loop.
YouTubeRowMatches(text) ==
    /\ Contains("apk", text)
    /\ ~Contains("bundle", text)
    /\ Contains("nodpi", text)
    /\ Contains("universal", text)

\* The selection loop of sync_youtube.
RECURSIVE YouTubeVariant(_)
YouTubeVariant(rows) ==
    IF rows = <<>> THEN None
    ELSE IF /\ YouTubeRowMatches(RowText(Head(rows)))
            /\ RowFindLink(Head(rows)) # None
         THEN RowUrl(Head(rows))
    ELSE YouTubeVariant(Tail(rows))

\* variant_url as each script computes it
VariantUrl(t, rows) ==
    IF t = "youtube" THEN YouTubeVariant(rows)
    ELSE FirstByPriority(rows, Priority(t))

\* variant_url = ...; "if not variant_url: sys.exit(1)"
SelectVariant ==
    /\ stage = "SELECTING"
    /\ \E url \in {VariantUrl(tool, soup.rows)} :
           /\ variant_url' = url
           /\ IF ~Truthy(url)
              THEN /\ Say(<< NoVariantLine(tool) >>)
                   /\ Fail
              ELSE /\ Say(<< SelectedLine(tool, Val(url)) >>)
                   /\ stage' = "SELECTED"
                   /\ UNCHANGED exit_code
    /\ UNCHANGED <<tool, version, page, version_slug, release_url,
                   download_page, apk_url, soup, file, received, fetched>>

\* "Open download page": r = get(variant_url); r.raise_for_status(); soup = ...
FetchVariantPage ==
    /\ stage = "SELECTED"
    /\ \E status \in Statuses :
       \E doc \in (IF RaisesForStatus(status) THEN {NoDoc} ELSE VariantDocs) :
          /\ Request("variant", Val(variant_url), status)
          /\ IF RaisesForStatus(status)
             THEN /\ Fail
                  /\ UNCHANGED soup
             ELSE /\ soup' = doc
                  /\ stage' = "RESOLVING_HOP1"
                  /\ UNCHANGED exit_code
    /\ UNCHANGED <<tool, version, page, version_slug, release_url, variant_url,
                   download_page, apk_url, file, received, stdout>>

\* urljoin(APKMIRROR_BASE, element["href"]) of a selected element: None when
\* the element is missing (sys.exit(1)) or has no href (KeyError).
ElementTarget(element) ==
    IF element = None \/ Val(element).href = None THEN None
    ELSE Some(Absolute(Val(Val(element).href)))

\* Mutant: the download button's target taken for the binary itself, the
\* confirmation page left out.
FindDownloadButton_skiphop ==
    /\ stage = "RESOLVING_HOP1"
    /\ download_page = None
    /\ LET download_btn == SelectDownloadButton(soup.anchors)
           target == ElementTarget(download_btn)
       IN  IF target = None
           THEN /\ Say(IF download_btn = None
                       THEN << NoButtonLine(tool) >> ELSE <<>>)
                /\ Fail
                /\ UNCHANGED <<download_page, apk_url>>
           ELSE /\ download_page' = target
                /\ apk_url' = target
                /\ stage' = "DOWNLOADING"
                /\ UNCHANGED <<stdout, exit_code>>
    /\ UNCHANGED <<tool, version, page, version_slug, release_url, variant_url,
                   soup, file, received, fetched>>

\* download_btn = soup.select_one("a.downloadButton"); exit if missing;
\* download_page = urljoin(APKMIRROR_BASE, download_btn["href"])
FindDownloadButton ==
    /\ stage = "RESOLVING_HOP1"
    /\ download_page = None
    /\ LET download_btn == SelectDownloadButton(soup.anchors)
           target == ElementTarget(download_btn)
       IN  IF target = None
           THEN /\ Say(IF download_btn = None
                       THEN << NoButtonLine(tool) >> ELSE <<>>)
                /\ Fail
                /\ UNCHANGED download_page
           ELSE /\ download_page' = target
                /\ UNCHANGED <<stage, stdout, exit_code>>
    /\ UNCHANGED <<tool, version, page, version_slug, release_url, variant_url,
                   apk_url, soup, file, received, fetched>>

\* Mutant: the variant page requested a second time in place of the
\* confirmation page.
FetchConfirmation_wrongurl ==
    /\ stage = "RESOLVING_HOP1"
    /\ download_page # None
    /\ \E status \in Statuses :
       \E doc \in (IF RaisesForStatus(status) THEN {NoDoc} ELSE ConfirmDocs) :
          /\ Request("confirm", Val(variant_url), status)
          /\ IF RaisesForStatus(status)
             THEN /\ Fail
                  /\ UNCHANGED soup
             ELSE /\ soup' = doc
                  /\ stage' = "RESOLVING_HOP2"
                  /\ UNCHANGED exit_code
    /\ UNCHANGED <<tool, version, page, version_slug, release_url, variant_url,
                   download_page, apk_url, file, received, stdout>>

\* r = get(download_page); r.raise_for_status(); soup = ...
FetchConfirmation ==
    /\ stage = "RESOLVING_HOP1"
    /\ download_page # None
    /\ \E status \in Statuses :
       \E doc \in (IF RaisesForStatus(status) THEN {NoDoc} ELSE ConfirmDocs) :
          /\ Request("confirm", Val(download_page), status)
          /\ IF RaisesForStatus(status)
             THEN /\ Fail
                  /\ UNCHANGED soup
             ELSE /\ soup' = doc
                  /\ stage' = "RESOLVING_HOP2"
                  /\ UNCHANGED exit_code
    /\ UNCHANGED <<tool, version, page, version_slug, release_url, variant_url,
                   download_page, apk_url, file, received, stdout>>

\* final_link = soup.select_one("a[rel='nofollow']"); exit if missing;
\* apk_url = urljoin(APKMIRROR_BASE, final_link["href"])
FindFinalLink ==
    /\ stage = "RESOLVING_HOP2"
    /\ LET final_link == SelectNofollow(soup.anchors)
           target == ElementTarget(final_link)
       IN  IF target = None
           THEN /\ Say(IF final_link = None
                       THEN << NoFinalLine(tool) >> ELSE <<>>)
                /\ Fail
                /\ UNCHANGED apk_url
           ELSE /\ apk_url' = target
                /\ Say(ResolvedLines(tool))
                /\ stage' = "DOWNLOADING"
                /\ UNCHANGED exit_code
    /\ UNCHANGED <<tool, version, page, version_slug, release_url, variant_url,
                   download_page, soup, file, received, fetched>>

\* Mutant: the output file opened before the status of the response is
\* checked.
RequestBinary_openfirst ==
    /\ stage = "DOWNLOADING"
    /\ ~file.opened
    /\ \E status \in Statuses :
          /\ Say(DownloadingLines(tool, Val(version)))
          /\ Request("binary", Val(apk_url), status)
          /\ file' = [opened |-> TRUE,
                      path |-> OutputPath(tool, Val(version)),
                      data |-> ""]
          /\ IF RaisesForStatus(status)
             THEN Fail
             ELSE UNCHANGED <<stage, exit_code>>
    /\ UNCHANGED <<tool, version, page, version_slug, release_url, variant_url,
                   download_page, apk_url, soup, received>>

\* with get(apk_url, stream=True) as r: r.raise_for_status();
\*     with open(apk_path, "wb") as f:
RequestBinary ==
    /\ stage = "DOWNLOADING"
    /\ ~file.opened
    /\ \E status \in Statuses :
          /\ Say(DownloadingLines(tool, Val(version)))
          /\ Request("binary", Val(apk_url), status)
          /\ IF RaisesForStatus(status)
             THEN /\ Fail
                  /\ UNCHANGED file
             ELSE /\ file' = [opened |-> TRUE,
                              path |-> OutputPath(tool, Val(version)),
                              data |-> ""]
                  /\ UNCHANGED <<stage, exit_code>>
    /\ UNCHANGED <<tool, version, page, version_slug, release_url, variant_url,
                   download_page, apk_url, soup, received>>

\* Mutant: each write replaces what was written before.
WriteChunk_overwrite(f, chunk) ==
    IF chunk # "" THEN [f EXCEPT !.data = chunk] ELSE f

\* "if chunk: f.write(chunk)"
WriteChunk(f, chunk) ==
    IF chunk # "" THEN [f EXCEPT !.data = @ \o chunk] ELSE f

\* One step of "for chunk in r.iter_content(8192)": the iterator yields a
\* chunk, raises (connection lost, read timeout), or is exhausted, after
\* which the script prints its success line and exits 0.
StreamStep ==
    /\ stage = "DOWNLOADING"
    /\ file.opened
    /\ \/ \E chunk \in Chunks :
             /\ Len(received) < MaxChunks
             /\ received' = Append(received, chunk)
             /\ file' = WriteChunk(file, chunk)
             /\ UNCHANGED <<stage, stdout, exit_code>>
       \/ /\ Fail
          /\ UNCHANGED <<file, received, stdout>>
       \/ /\ stage' = "DONE"
          /\ Say(DoneLines(tool, file.path))
          /\ exit_code' = Some(0)
          /\ UNCHANGED <<file, received>>
    /\ UNCHANGED <<tool, version, page, version_slug, release_url, variant_url,
                   download_page, apk_url, soup, fetched>>

Next ==
    \/ Validate
    \/ ScanPage
    \/ FetchRelease
    \/ SelectVariant
    \/ FetchVariantPage
    \/ FindDownloadButton
    \/ FetchConfirmation
    \/ FindFinalLink
    \/ RequestBinary
    \/ StreamStep

Spec == Init /\ [][Next]_vars

\* The characters of version strings: digits and the two separators.
VersionChars == {"1", "2", ".", "-"}

\* The strings of exactly n version characters, and of at most n.
RECURSIVE StringsOfLen(_)
StringsOfLen(n) ==
    IF n = 0 THEN {""}
    ELSE {c \o s : c \in VersionChars, s \in StringsOfLen(n - 1)}

VersionStrings == UNION {StringsOfLen(n) : n \in 0..MaxVerLen}

\* The slug computation alone, on every version string of the bounded set:
\* the script's first step and nothing after it.
SlugInit == Start({Some(v) : v \in VersionStrings})

SlugNext == Validate

SlugSpec == SlugInit /\ [][SlugNext]_vars

\* The run is one blocking thread and every request carries a timeout
\* (30 s for pages, 120 s for the binary): a statement that can run does
\* run, once the request it waits for has returned.
FairSpec == Spec /\ WF_vars(Next)

----------------------------------------------------------------------------
(* Vocabulary of the properties                                            *)

Last(seq) == seq[Len(seq)]

\* A status that is not a success: no response at all, or 4xx / 5xx.
NonSuccess(status) == status = TimedOut \/ status >= 400

\* The last request issued was of this kind and succeeded.
LastOk(kind) ==
    /\ fetched # <<>>
    /\ Last(fetched).kind = kind
    /\ ~NonSuccess(Last(fetched).status)

\* The release page is parsed and the variant selection has run: soup still
\* holds the release page.
SelectionDone == LastOk("release") /\ stage \in {"SELECTED", "FAILED"}

HasLink(row) == \E i \in DOMAIN row.anchors : row.anchors[i].href # None

\* The texts of the rows of the release page, as the scripts test them.
RowTexts == [k \in DOMAIN soup.rows |-> RowText(soup.rows[k])]

\* Some row's text contains every tag of the entry.
TextMatch(texts, entry) == \E k \in DOMAIN texts : AllIn(entry, texts[k])

\* Some row that carries a link has a text containing every tag of the entry.
LinkedMatch(texts, entry) ==
    \E k \in DOMAIN texts : HasLink(soup.rows[k]) /\ AllIn(entry, texts[k])

\* The rows whose link is the selected variant URL.
SelectedRows ==
    {k \in DOMAIN soup.rows :
        /\ RowFindLink(soup.rows[k]) # None
        /\ variant_url =
             Some(Absolute(Val(Val(RowFindLink(soup.rows[k])).href)))}

\* A variant was selected, and every row it can be matches the entry.
SelectedMatches(texts, entry) ==
    /\ stage = "SELECTED"
    /\ SelectedRows # {}
    /\ \A k \in SelectedRows : AllIn(entry, texts[k])

RECURSIVE Concat(_)
Concat(chunks) ==
    IF chunks = <<>> THEN "" ELSE Head(chunks) \o Concat(Tail(chunks))

----------------------------------------------------------------------------
(* C1. Pagination scan is monotonic: once a listing page k holds a link    *)
(* whose href contains the version slug, no listing page with a number     *)
(* greater than k is fetched in that run.                                  *)
C1_PaginationMonotonic ==
    \A i \in DOMAIN fetched :
        (fetched[i].kind = "listing" /\ fetched[i].hasSlug) =>
            \A j \in DOMAIN fetched :
                fetched[j].kind = "listing" => fetched[j].page <= fetched[i].page

\* A run that found the release on page 3 and went on to download it.
C1_Witness ==
    /\ stage = "DONE"
    /\ Len(fetched) > 3
    /\ fetched[3].kind = "listing" /\ fetched[3].page = 3 /\ fetched[3].hasSlug

----------------------------------------------------------------------------
(* C2 as stated: Music and Reddit; when some row's text contains every tag *)
(* of entry i (the most preferred entry any row matches) and some row's    *)
(* text contains every tag of a less preferred entry j, the selected       *)
(* variant is a row matching entry i.                                      *)
C2_Original ==
    (SelectionDone /\ tool \in {"music", "reddit"}) =>
        LET texts == RowTexts
            matched == {i \in DOMAIN Priority(tool) :
                            TextMatch(texts, Priority(tool)[i])}
        IN  \A i \in matched :
                (\A h \in matched : i <= h) =>
                    \A j \in matched :
                        i < j => SelectedMatches(texts, Priority(tool)[i])

(* C2, amended. Variant selection respects priority strictly among the     *)
(* rows that carry a link: when entry i is the most preferred entry that   *)
(* some linked row matches, and some row matches a less preferred entry j, *)
(* the selected variant is a row matching entry i.                         *)
C2_PriorityAmongLinkedRows ==
    (SelectionDone /\ tool \in {"music", "reddit"}) =>
        LET texts == RowTexts
            matched == {i \in DOMAIN Priority(tool) :
                            TextMatch(texts, Priority(tool)[i])}
            linked == {i \in DOMAIN Priority(tool) :
                            LinkedMatch(texts, Priority(tool)[i])}
        IN  \A i \in linked :
                (\A h \in linked : i <= h) =>
                    \A j \in matched :
                        i < j => SelectedMatches(texts, Priority(tool)[i])

\* Music: the armeabi-v7a row is displayed first, the arm64-v8a row second,
\* and the arm64-v8a row is the one selected.
C2_Witness ==
    /\ tool = "music"
    /\ stage = "SELECTED"
    /\ LastOk("release")
    /\ Len(soup.rows) = 2
    /\ HasLink(soup.rows[1])
    /\ AllIn(Priority("music")[2], RowText(soup.rows[1]))
    /\ ~AllIn(Priority("music")[1], RowText(soup.rows[1]))
    /\ AllIn(Priority("music")[1], RowText(soup.rows[2]))
    /\ SelectedRows = {2}

----------------------------------------------------------------------------
(* C3 as stated: all or nothing. A run either reaches DONE with the        *)
(* complete artifact in the output file, or fails having written nothing:  *)
(* the file was not created, truncated or partly written.                  *)
C3_Original ==
    /\ stage = "DONE" => (file.opened /\ file.data = Concat(received))
    /\ stage = "FAILED" => (~file.opened /\ file.data = "")

(* C3, amended. A run that reaches DONE has written every chunk of the     *)
(* response to the output file, in order. A run that fails before the      *)
(* binary response passed its status check has not opened the output file. *)
(* A run that fails while streaming leaves the file created, holding the   *)
(* chunks received before the failure.                                     *)
C3_AllOrNothingBeforeStreaming ==
    /\ stage = "DONE" => (file.opened /\ file.data = Concat(received))
    /\ (stage = "FAILED" /\ ~LastOk("binary")) => (~file.opened /\ file.data = "")
    /\ (stage = "FAILED" /\ LastOk("binary")) =>
           (file.opened /\ file.data = Concat(received))

\* A completed download of two non-empty chunks.
C3_Witness ==
    /\ stage = "DONE"
    /\ received = <<"PK", "PK">>
    /\ file.opened
    /\ file.path = OutputPath(tool, Val(version))
    /\ file.data = "PKPK"

----------------------------------------------------------------------------
(* C4. YouTube: a row whose text contains "bundle" is never selected, also *)
(* when it contains "apk", "nodpi" and "universal"; when every row with    *)
(* all three positive tags also contains "bundle", the run fails with no   *)
(* variant selected.                                                       *)
C4_BundleRejected ==
    (SelectionDone /\ tool = "youtube") =>
        LET texts == RowTexts
        IN  /\ stage = "SELECTED" =>
                  /\ SelectedRows # {}
                  /\ \A k \in SelectedRows : ~Contains("bundle", texts[k])
            /\ (\A k \in DOMAIN texts :
                    AllIn(<<"apk", "nodpi", "universal">>, texts[k])
                        => Contains("bundle", texts[k]))
               => (stage = "FAILED" /\ variant_url = None)

\* The bundle row, with all positive tags and a link, is displayed first and
\* passed over for the single-file row after it.
C4_Witness ==
    /\ tool = "youtube"
    /\ stage = "SELECTED"
    /\ LastOk("release")
    /\ Len(soup.rows) = 2
    /\ HasLink(soup.rows[1])
    /\ AllIn(<<"apk", "nodpi", "universal", "bundle">>, RowText(soup.rows[1]))
    /\ SelectedRows = {2}

----------------------------------------------------------------------------
\* The page has an anchor of class downloadButton.
HasButton(doc) ==
    \E i \in DOMAIN doc.anchors : \E c \in DOMAIN doc.anchors[i].class :
        doc.anchors[i].class[c] = "downloadButton"

\* The page has an anchor marked rel="nofollow".
HasNofollow(doc) ==
    \E i \in DOMAIN doc.anchors : doc.anchors[i].rel = Some("nofollow")

\* The requests issued after the release page, the binary request left out.
RECURSIVE PageFetchesAfterRelease(_, _)
PageFetchesAfterRelease(log, seen) ==
    IF log = <<>> THEN <<>>
    ELSE IF Head(log).kind = "release" THEN PageFetchesAfterRelease(Tail(log), TRUE)
    ELSE IF seen /\ Head(log).kind # "binary"
         THEN <<Head(log)>> \o PageFetchesAfterRelease(Tail(log), seen)
    ELSE PageFetchesAfterRelease(Tail(log), seen)

(* C5. Redirect resolution is two page fetches after the variant is        *)
(* selected: the variant page, then the confirmation page. When the        *)
(* download button is missing on the variant page, or the rel="nofollow"   *)
(* anchor is missing on the confirmation page, the run fails with no       *)
(* further fetch, no other link taken in its place and the output file     *)
(* never opened.                                                           *)
C5_TwoHopsNoFallback ==
    LET hops == PageFetchesAfterRelease(fetched, FALSE)
    IN  /\ Len(hops) <= 2
        /\ Len(hops) >= 1 =>
               (hops[1].kind = "variant" /\ hops[1].url = Val(variant_url))
        /\ Len(hops) = 2 =>
               (hops[2].kind = "confirm" /\ hops[2].url = Val(download_page))
        /\ stage \in {"DOWNLOADING", "DONE"} => Len(hops) = 2
        /\ (LastOk("variant") /\ ~HasButton(soup)) =>
               /\ stage \in {"RESOLVING_HOP1", "FAILED"}
               /\ download_page = None /\ apk_url = None /\ ~file.opened
        /\ (LastOk("confirm") /\ ~HasNofollow(soup)) =>
               /\ stage \in {"RESOLVING_HOP2", "FAILED"}
               /\ apk_url = None /\ ~file.opened

\* Scenario E: the confirmation page carries other links but not the marked
\* one, and the run has failed on it.
C5_Witness ==
    /\ stage = "FAILED"
    /\ LastOk("confirm")
    /\ soup = Doc(<<OtherLink, DownloadButton>>, <<>>)
    /\ Len(PageFetchesAfterRelease(fetched, FALSE)) = 2
    /\ apk_url = None

----------------------------------------------------------------------------
\* Every request so far was for a listing page, succeeded, and found no link
\* whose href contains the slug.
OnlyListingMisses ==
    \A i \in DOMAIN fetched :
        /\ fetched[i].kind = "listing"
        /\ ~NonSuccess(fetched[i].status)
        /\ ~fetched[i].hasSlug

(* C6. Scenario B: when every listing page is fetched successfully and     *)
(* none of them holds a link whose href contains the slug, the run fetches *)
(* pages 1 to 25 in ascending order, never a 26th, and then fails without  *)
(* fetching anything else and without writing the output file.             *)
C6_ScenarioB ==
    (fetched # <<>> /\ OnlyListingMisses) =>
        /\ Len(fetched) <= 25
        /\ \A i \in DOMAIN fetched :
               fetched[i].page = i /\ fetched[i].url = PageUrl(tool, i)
        /\ IF Len(fetched) = 25
           THEN stage = "FAILED" /\ exit_code = Some(1) /\ release_url = None
           ELSE stage = "LOCATING"
        /\ ~file.opened

\* All 25 pages scanned without a match, and the run has failed.
C6_Witness ==
    /\ Len(fetched) = 25
    /\ OnlyListingMisses
    /\ stage = "FAILED"

----------------------------------------------------------------------------
\* The row test of the tool, from the tags its script names.
RowAcceptable(t, text) ==
    IF t = "youtube"
    THEN AllIn(<<"apk", "nodpi", "universal">>, text) /\ ~Contains("bundle", text)
    ELSE \E e \in DOMAIN Priority(t) : AllIn(Priority(t)[e], text)

(* C7. Scenario C: when the release page is fetched and no row matches any *)
(* entry of the tool's priority list, the run fails after the release-page *)
(* fetch: no variant, confirmation or binary request, no output file.      *)
C7_ScenarioC ==
    (SelectionDone /\ \A k \in DOMAIN soup.rows :
                          ~RowAcceptable(tool, RowText(soup.rows[k]))) =>
        /\ stage = "FAILED"
        /\ exit_code = Some(1)
        /\ variant_url = None
        /\ ~file.opened

\* Music: two rows, both with a link, neither for a wanted architecture.
C7_Witness ==
    /\ tool = "music"
    /\ SelectionDone
    /\ stage = "FAILED"
    /\ Len(soup.rows) = 2
    /\ \A k \in DOMAIN soup.rows :
           HasLink(soup.rows[k]) /\ ~RowAcceptable(tool, RowText(soup.rows[k]))

----------------------------------------------------------------------------
(* C8 as stated: Music and Reddit; when no row matches entries 1..i-1 and  *)
(* some row matches entry i (i >= 2), the selected variant is a row        *)
(* matching entry i and the run does not fail.                             *)
C8_Original ==
    (SelectionDone /\ tool \in {"music", "reddit"}) =>
        LET texts == RowTexts
            matched == {i \in DOMAIN Priority(tool) :
                            TextMatch(texts, Priority(tool)[i])}
        IN  \A i \in matched :
                (i >= 2 /\ \A h \in matched : i <= h) =>
                    SelectedMatches(texts, Priority(tool)[i])

(* C8, amended. Scenario D: when no row matches entries 1..i-1 and some    *)
(* row that carries a link matches entry i (i >= 2), the selected variant  *)
(* is a row matching entry i and the run does not fail.                    *)
C8_FallbackToLinkedRow ==
    (SelectionDone /\ tool \in {"music", "reddit"}) =>
        LET texts == RowTexts
            matched == {i \in DOMAIN Priority(tool) :
                            TextMatch(texts, Priority(tool)[i])}
        IN  \A i \in matched :
                ( /\ i >= 2
                  /\ \A h \in matched : i <= h
                  /\ LinkedMatch(texts, Priority(tool)[i]) )
                => SelectedMatches(texts, Priority(tool)[i])

\* Reddit: a row matching no entry, then a row matching only the fourth
\* entry, which is selected.
C8_Witness ==
    /\ tool = "reddit"
    /\ stage = "SELECTED"
    /\ LastOk("release")
    /\ Len(soup.rows) = 2
    /\ \A h \in 1..3 : ~TextMatch(RowTexts, Priority("reddit")[h])
    /\ ~RowAcceptable("reddit", RowText(soup.rows[1]))
    /\ SelectedRows = {2}

----------------------------------------------------------------------------
StageIndex(s) == CHOOSE i \in DOMAIN Stages : Stages[i] = s

Terminal == {"DONE", "FAILED"}

\* A step of the run: from a stage that is not terminal, staying in it,
\* entering the next stage of the order, or failing.
StageStep ==
    /\ stage \notin Terminal
    /\ \/ stage' = stage
       \/ stage' = "FAILED"
       \/ stage' = Stages[StageIndex(stage) + 1]

\* The run has failed, and this is the stage it failed in (read off the
\* history: a failing step either issues a request that fails, or follows
\* the last successful request without issuing one).
FailedIn(s) ==
    /\ stage = "FAILED"
    /\ CASE s = "START"          -> fetched = <<>>
         [] s = "LOCATING"       -> fetched # <<>> /\ Last(fetched).kind = "listing"
         [] s = "LOCATED"        -> fetched # <<>> /\ Last(fetched).kind = "release"
                                       /\ NonSuccess(Last(fetched).status)
         [] s = "SELECTING"      -> LastOk("release")
         [] s = "SELECTED"       -> fetched # <<>> /\ Last(fetched).kind = "variant"
                                       /\ NonSuccess(Last(fetched).status)
         [] s = "RESOLVING_HOP1" -> download_page = None /\ LastOk("variant")
         [] s = "RESOLVING_HOP2" -> LastOk("confirm")
         [] s = "DOWNLOADING"    -> fetched # <<>> /\ Last(fetched).kind = "binary"

\* Reachability of FAILED from each stage: each of these is an invariant
\* that fails, the run being able to fail in that stage.
NeverFailsInStart == ~FailedIn("START")
NeverFailsInLocating == ~FailedIn("LOCATING")
NeverFailsInLocated == ~FailedIn("LOCATED")
NeverFailsInSelecting == ~FailedIn("SELECTING")
NeverFailsInSelected == ~FailedIn("SELECTED")
NeverFailsInHop1 == ~FailedIn("RESOLVING_HOP1")
NeverFailsInHop2 == ~FailedIn("RESOLVING_HOP2")
NeverFailsInDownloading == ~FailedIn("DOWNLOADING")

(* C9. Stage order: the stages occur only in the order START, LOCATING,    *)
(* LOCATED, SELECTING, SELECTED, RESOLVING_HOP1, RESOLVING_HOP2,           *)
(* DOWNLOADING, DONE; every step stays in its stage, enters the next one   *)
(* or fails, so that no stage is entered again or skipped; after DONE or   *)
(* FAILED there is no step at all: nothing is fetched or written.          *)
C9_StageOrder == [][StageStep]_vars

\* A run that went through every stage to DONE.
C9_Witness ==
    /\ stage = "DONE"
    /\ exit_code = Some(0)
    /\ Len(fetched) >= 5
    /\ Last(fetched).kind = "binary"
    /\ file.opened /\ file.data # ""

----------------------------------------------------------------------------
(* C10. Transport failure is terminal at every fetch: a request that times *)
(* out or returns a non-success status is the last request of the run, and *)
(* the run has failed; a failed listing page n is never followed by page   *)
(* n+1 or by any other request.                                            *)
C10_TransportFailureTerminal ==
    \A i \in DOMAIN fetched :
        NonSuccess(fetched[i].status) =>
            /\ i = Len(fetched)
            /\ stage = "FAILED"
            /\ exit_code = Some(1)
            /\ ~file.opened

\* Listing page 2 answered 404 and the run stopped there.
C10_Witness ==
    /\ Len(fetched) = 2
    /\ fetched[2].kind = "listing" /\ fetched[2].page = 2
    /\ fetched[2].status = 404
    /\ stage = "FAILED"

----------------------------------------------------------------------------
\* The output file as it is before the run touches it.
Untouched == file = [opened |-> FALSE, path |-> "", data |-> ""]

(* C11. Missing input is a startup failure: when the version string is     *)
(* unset or empty, the run issues no request and never opens the output   *)
(* file; its only step prints one diagnostic line and exits with a         *)
(* non-zero status.                                                        *)
C11_MissingVersionFailsAtStartup ==
    (version = None \/ version = Some("")) =>
        /\ fetched = <<>>
        /\ Untouched
        /\ version_slug = None
        /\ \/ stage = "START" /\ stdout = <<>> /\ exit_code = None
           \/ /\ stage = "FAILED"
              /\ exit_code # None /\ Val(exit_code) # 0
              /\ Len(stdout) = 1
              /\ StartsWith(stdout[1], "ERROR: ")
              /\ Contains("_VERSION missing", stdout[1])

\* The version is set but empty, and the run has ended.
C11_Witness ==
    /\ version = Some("")
    /\ stage = "FAILED"
    /\ stdout = << MissingVersionLine(tool) >>
    /\ fetched = <<>>

----------------------------------------------------------------------------
\* How many requests of a kind the run has issued.
Issued(kind) == Cardinality({i \in DOMAIN fetched : fetched[i].kind = kind})

\* At most MAX_PAGES listing requests and one request each for the release
\* page, the variant page, the confirmation page and the binary.
FetchBound ==
    /\ Issued("listing") <= MAX_PAGES
    /\ \A kind \in {"release", "variant", "confirm", "binary"} : Issued(kind) <= 1
    /\ Len(fetched) <= MAX_PAGES + 4

(* C12. Termination: when every request returns (with a success status, a  *)
(* non-success status or a timeout), every run of every tool reaches DONE  *)
(* or FAILED, and at no point has it issued more than 25 listing requests  *)
(* plus one request each for the release page, the variant page, the       *)
(* confirmation page and the binary.                                       *)
C12_TerminatesWithinFetchBound ==
    /\ <>(stage \in Terminal)
    /\ []FetchBound

\* The longest run: the release found on page 25, then the four further
\* requests, 29 in all.
C12_Witness ==
    /\ stage = "DONE"
    /\ Len(fetched) = MAX_PAGES + 4
    /\ Issued("listing") = MAX_PAGES

----------------------------------------------------------------------------
Separators == {".", "-"}

\* Two strings of the same length that differ only where both have a
\* separator.
SameUpToSeparators(v, w) ==
    /\ Len(v) = Len(w)
    /\ \A i \in 1..Len(v) :
          \/ Char(v, i) = Char(w, i)
          \/ {Char(v, i), Char(w, i)} \subseteq Separators

\* The slug is the app prefix, then a text as long as the version without
\* any '.', then "-release".
WellFormedSlug(t, v, slug) ==
    /\ StartsWith(slug, SlugPrefix(t))
    /\ Len(slug) = Len(SlugPrefix(t)) + Len(v) + Len("-release")
    /\ SubSeq(slug, Len(slug) - Len("-release") + 1, Len(slug)) = "-release"
    /\ ~Contains(".", slug)

\* C13 as stated: no other version string over digits, '.' and '-' has the
\* slug of this run's version.
C13_Original ==
    version_slug # None =>
        \A w \in VersionStrings :
            w # Val(version) => Slug(tool, w) # Val(version_slug)

(* C13. Slug generation: the slug of a version is the app prefix, the      *)
(* version with every '.' replaced by '-', and "-release"; two version     *)
(* strings over digits, '.' and '-' have the same slug exactly when they   *)
(* differ only in having '.' where the other has '-'; so the slug is       *)
(* injective over versions written with digits and '.' alone.              *)
C13_SlugInjectiveUpToSeparators ==
    version_slug # None =>
        /\ WellFormedSlug(tool, Val(version), Val(version_slug))
        /\ \A w \in VersionStrings :
              (Slug(tool, w) = Val(version_slug))
                  <=> SameUpToSeparators(Val(version), w)

\* The slug of a version of full length that has a '.' in it.
C13_Witness ==
    /\ version = Some("1.2")
    /\ version_slug = Some(SlugPrefix(tool) \o "1-2-release")
    /\ stage = "LOCATING"

----------------------------------------------------------------------------
\* The entries a tool tries, by number: the priority list of sync_music and
\* sync_reddit, the single row test of sync_youtube.
EntryNumbers(t) == IF t = "youtube" THEN {1} ELSE DOMAIN Priority(t)

\* The text of a row passes the test of entry e.
EntryAccepts(t, e, text) ==
    IF t = "youtube"
    THEN AllIn(<<"apk", "nodpi", "universal">>, text) /\ ~Contains("bundle", text)
    ELSE AllIn(Priority(t)[e], text)

\* The page address the link of row k leads to.
LinkOf(k) == Some(Absolute(Val(Val(RowFindLink(soup.rows[k])).href)))

\* C14 as stated: the most preferred entry that the text of some row passes
\* is not treated as unmatched, and the row selected is the first row, in
\* displayed order, whose text passes it.
C14_Original ==
    SelectionDone =>
        LET texts == RowTexts
            matched == {e \in EntryNumbers(tool) :
                           \E k \in DOMAIN texts : EntryAccepts(tool, e, texts[k])}
        IN  matched # {} =>
                LET e == Least(matched)
                    k == Least({r \in DOMAIN texts : EntryAccepts(tool, e, texts[r])})
                IN  /\ stage = "SELECTED"
                    /\ HasLink(soup.rows[k])
                    /\ variant_url = LinkOf(k)

(* C14. Within one entry, row order decides among the rows that carry a    *)
(* link: the variant selected is the link of the first row, in displayed   *)
(* order, that has a link and whose lower-cased text passes the most       *)
(* preferred entry passed by any linked row; a later such row is never     *)
(* selected in its place, and the run fails with no variant exactly when   *)
(* no linked row passes any entry.                                         *)
C14_FirstLinkedRowOfEntry ==
    SelectionDone =>
        LET texts == RowTexts
            linked == {e \in EntryNumbers(tool) :
                          \E k \in DOMAIN texts :
                              HasLink(soup.rows[k]) /\ EntryAccepts(tool, e, texts[k])}
        IN  IF linked = {}
            THEN stage = "FAILED" /\ variant_url = None
            ELSE LET e == Least(linked)
                     k == Least({r \in DOMAIN texts :
                                    /\ HasLink(soup.rows[r])
                                    /\ EntryAccepts(tool, e, texts[r])})
                 IN  /\ stage = "SELECTED"
                     /\ variant_url = LinkOf(k)

\* Music: two linked rows pass the first entry and lead to different pages;
\* the first displayed is the one selected.
C14_Witness ==
    /\ tool = "music"
    /\ stage = "SELECTED"
    /\ LastOk("release")
    /\ Len(soup.rows) = 2
    /\ \A k \in 1..2 :
          /\ HasLink(soup.rows[k])
          /\ AllIn(Priority("music")[1], RowText(soup.rows[k]))
    /\ LinkOf(1) # LinkOf(2)
    /\ variant_url = LinkOf(1)

----------------------------------------------------------------------------
(* C15. The Music tool downloads a single-file APK: the variant it selects *)
(* is never a row whose text contains "bundle", also when that text        *)
(* contains "apk", "nodpi" and the architecture tag of the entry tried.    *)
(* sync_music's find_variant has no exclusion test, so this does not hold. *)
C15_MusicNeverSelectsBundle ==
    (tool = "music" /\ SelectionDone /\ stage = "SELECTED") =>
        LET texts == RowTexts
        IN  \A k \in SelectedRows : ~Contains("bundle", texts[k])

----------------------------------------------------------------------------
\* The listing requests whose page held a link with the slug in its href.
SlugPages ==
    {i \in DOMAIN fetched : fetched[i].kind = "listing" /\ fetched[i].first # None}

(* C16. Located release is the first match: once the release URL is set,   *)
(* it is the href, resolved against the mirror base, of the first link in  *)
(* document order whose href contains the slug, on the lowest-numbered     *)
(* listing page that has such a link; that page is the last one fetched,   *)
(* so no later link of it and no link of a higher page is chosen.          *)
C16_ReleaseIsFirstMatch ==
    release_url # None =>
        /\ SlugPages # {}
        /\ LET i == Least(SlugPages)
           IN  /\ release_url = Some(Absolute(Val(fetched[i].first)))
               /\ fetched[i].page = i
               /\ \A j \in DOMAIN fetched :
                     fetched[j].kind = "listing" => fetched[j].page <= i
               /\ \A j \in 1..(i - 1) : ~fetched[j].hasSlug

\* The release found on listing page 2, through a link given as an absolute
\* URL with a fragment.
C16_Witness ==
    /\ stage = "LOCATED"
    /\ Len(fetched) = 2
    /\ fetched[1].first = None
    /\ fetched[2].first # None
    /\ StartsWith(Val(fetched[2].first), "https://")
    /\ release_url = fetched[2].first

----------------------------------------------------------------------------
\* The last four requests were for the release page, the variant page, the
\* confirmation page and the binary, in this order, and all succeeded.
ChainSucceeded ==
    /\ Len(fetched) >= 5
    /\ LET n == Len(fetched)
       IN  /\ <<fetched[n - 3].kind, fetched[n - 2].kind,
                fetched[n - 1].kind, fetched[n].kind>>
                  = <<"release", "variant", "confirm", "binary">>
           /\ \A i \in DOMAIN fetched : ~NonSuccess(fetched[i].status)

(* C17. The output file is opened only in the DOWNLOADING stage, after the *)
(* release was located, the variant selected, both download pages resolved *)
(* and the binary response passed its status check; a run that fails at or *)
(* before that check leaves the output path as it was.                     *)
C17_OpenedOnlyAfterStatusCheck ==
    /\ ~Untouched =>
          /\ file.opened
          /\ file.path = OutputPath(tool, Val(version))
          /\ stage \in {"DOWNLOADING", "DONE", "FAILED"}
          /\ release_url # None /\ variant_url # None
          /\ download_page # None /\ apk_url # None
          /\ ChainSucceeded
    /\ (stage = "FAILED" /\ ~LastOk("binary")) => Untouched
    /\ stage \notin {"DOWNLOADING", "DONE", "FAILED"} => Untouched

\* The binary request answered 404: the run failed at the status check and
\* the output file was not opened.
C17_Witness ==
    /\ stage = "FAILED"
    /\ fetched # <<>>
    /\ Last(fetched).kind = "binary"
    /\ Last(fetched).status = 404
    /\ apk_url # None
    /\ Untouched

----------------------------------------------------------------------------
\* The first anchor of the page in soup that is marked rel="nofollow".
FirstNofollow ==
    soup.anchors[Least({i \in DOMAIN soup.anchors :
                           soup.anchors[i].rel = Some("nofollow")})]

(* C18. Exact request sequence on success: a run that reaches DONE with    *)
(* the slug first found on listing page k has issued exactly k + 4         *)
(* requests, all successful: listing pages 1..k in ascending order, then   *)
(* the release page, the selected variant page, the confirmation page and  *)
(* the binary, each once, each at the URL the stage before it produced.    *)
C18_ExactFetchSequence ==
    stage = "DONE" =>
        LET n == Len(fetched)
            k == n - 4
        IN  /\ k >= 1
            /\ SlugPages = {k}
            /\ \A i \in 1..n : ~NonSuccess(fetched[i].status)
            /\ \A i \in 1..k :
                  /\ fetched[i].kind = "listing"
                  /\ fetched[i].page = i
                  /\ fetched[i].url = PageUrl(tool, i)
            /\ [i \in 1..4 |-> fetched[k + i].kind]
                  = <<"release", "variant", "confirm", "binary">>
            /\ [i \in 1..4 |-> Some(fetched[k + i].url)]
                  = <<release_url, variant_url, download_page, apk_url>>
            /\ release_url = Some(Absolute(Val(fetched[k].first)))
            /\ HasNofollow(soup)
            /\ apk_url = Some(Absolute(Val(FirstNofollow.href)))

\* A completed run that found the release on listing page 2: six requests.
C18_Witness ==
    /\ stage = "DONE"
    /\ Len(fetched) = 6
    /\ fetched[2].kind = "listing" /\ fetched[2].hasSlug
    /\ fetched[6].kind = "binary"

----------------------------------------------------------------------------
\* The printed lines that begin with APK_PATH=.
ApkPathLines == {i \in DOMAIN stdout : StartsWith(stdout[i], "APK_PATH=")}

(* C19. Output-path line only on success: in the YouTube tool the line     *)
(* APK_PATH=<path> is printed exactly by the runs that reach DONE, as      *)
(* their last line, after every chunk of the binary response has been      *)
(* written to the output file; a run that has failed, or is still running, *)
(* has not printed it.                                                     *)
C19_ApkPathOnlyOnSuccess ==
    tool = "youtube" =>
        /\ (ApkPathLines # {}) <=> (stage = "DONE")
        /\ stage = "DONE" =>
              /\ ApkPathLines = {Len(stdout)}
              /\ Last(stdout) = "APK_PATH=tmp/YouTube-" \o Val(version) \o ".apk"
              /\ Last(stdout) = "APK_PATH=" \o file.path
              /\ file.opened
              /\ file.data = Concat(received)
              /\ exit_code = Some(0)

\* YouTube, a completed download of two chunks: the last line printed is
\* the path of the file.
C19_Witness ==
    /\ tool = "youtube"
    /\ stage = "DONE"
    /\ received = <<"PK", "PK">>
    /\ file.data = "PKPK"
    /\ Last(stdout) = "APK_PATH=tmp/YouTube-1.2.apk"

====
